---- MODULE Spec2Model ----
(***************************************************************************)
(* Model of the resilient step sequencer of cita-bot (src/new.py):         *)
(* main's retry loop, run_complete_flow_once and its steps, the transition *)
(* detector wait_for_transition, the page classifiers and backoff_sleep.   *)
(*                                                                         *)
(* Time is counted in ticks, TicksPerSecond ticks to the second.  A draw   *)
(* of random.random() is k / RandSteps for k in 0 .. RandSteps-1, so it    *)
(* lies in [0, 1) as in Python.  The remote site is the environment: every *)
(* page it serves and every transport fault it causes is a free choice.    *)
(***************************************************************************)
EXTENDS Integers, Sequences, FiniteSets, TLC

\* ---------------------------------------------------------------- bounds
MAX_RETRIES == 3
RandSteps == 2
TicksPerSecond == 2
MaxPolls == 2
MaxCells == 2
MaxBase == 3
MaxCap == 7
MaxPrev == 4

\* ------------------------------------------------------ program constants
BACKOFF_BASE == 5
BACKOFF_CAP == 600
DOM_SIG_DELTA == 50

\* main calls run_complete_flow_once(keep_open_on_success=True); the default is False
KEEP_OPEN_DEFAULT == FALSE
KEEP_OPEN_ON_SUCCESS == TRUE

VARIABLES
    pc,            \* position of the single thread of control
    cfg,           \* AUTO_CAPTCHA, ANTICAPTCHA_AVAILABLE, ANTICAPTCHA_API_KEY
    attempt,       \* main: loop variable (0 before the loop)
    last_backoff,  \* main: last_backoff, in ticks
    outcome,       \* main: outcome of the attempt that just returned
    retained,      \* main: TRUE iff its `driver` is not None
    driver,        \* run_complete_flow_once: "none", "open" or "quit"
    step,          \* step of the attempt now running (0 outside a step)
    trail,         \* steps started in the current attempt, in order
    wt,            \* frame of wait_for_transition
    page,          \* the page last looked at by a classifier
    loc,           \* locals of cita_selection / confirmation_step
    opened,        \* sessions acquired by start_driver in this run
    live,          \* sessions acquired and not yet quit
    sleeps,        \* sleeps the retry controller has started
    lastSleep,     \* the sleep in progress
    hist,          \* the branch main took after each attempt, in order
    fault,         \* the fault that left main, if any
    alarms,        \* phrases handed to play_alarm, in order
    raised,        \* the transport fault that ended the attempt just run:
                   \* "propagated" to the handler of run_complete_flow_once,
                   \* "absorbed" by a handler inside a step, or "none"
    bo             \* frame of a direct call of backoff_sleep

vars == <<pc, cfg, attempt, last_backoff, outcome, retained, driver, step,
          trail, wt, page, loc, opened, live, sleeps, lastSleep, hist, fault, alarms,
          raised, bo>>

mainVars == <<attempt, last_backoff, opened, sleeps, lastSleep, hist, alarms>>
flowVars == <<step, trail, wt, page, loc>>

\* ---------------------------------------------------------------- helpers
Abs(x) == IF x < 0 THEN -x ELSE x
Min(a, b) == IF a <= b THEN a ELSE b

Rand == 0 .. (RandSteps - 1)

\* random.uniform(a, b) = a + (b - a) * random.random()
uniform(a, b, k) == a + ((b - a) * k) \div RandSteps

\* ---------------------------------------------------------- backoff_sleep
backoff_first(base, k) == base + (k * base) \div RandSteps

backoff_next_uncapped(base, cap, previous, k) == uniform(base, previous * 3, k)
backoff_next(base, cap, previous, k) == Min(cap, uniform(base, previous * 3, k))

backoff_sleep(base, cap, previous, k) ==
    IF previous <= 0 THEN backoff_first(base, k)
                     ELSE backoff_next(base, cap, previous, k)

\* ------------------------------------------------------------ page probes
URL_TIMEOUT == "infogenerica"
URL_VALIDAR == "/icpplustieb/acValidarEntrada"
URL_ENTRADA == "/icpplustieb/acEntrada"
TITLE_429 == "429 too many requests"

UrlFragments == {URL_TIMEOUT, URL_VALIDAR, URL_ENTRADA}
SrcChoices == { {}, {"request rejected"}, {"support id", "go back"}, {"support id"},
                {"too many requests"}, {"request rejected", "too many requests"} }

\* what the site can serve: the fragments found in current_url, title, page_source
Pages == [url : SUBSET UrlFragments, title : {{}}, src : SrcChoices]
             \cup [url : SUBSET UrlFragments, title : {{TITLE_429}}, src : {{}, {"request rejected"}}]
\* driver.find_element(By.ID, "btnEnviar") finds the control or raises
Probes == {"present", "absent"}
\* `probe` is what that lookup met, "-" where it is not made
NoPage == [url |-> {"-"}, title |-> {}, src |-> {}, probe |-> "-"]

is_request_rejected(p) ==
    ("request rejected" \in p.src) \/ ("support id" \in p.src /\ "go back" \in p.src)

is_rate_limited_429(p) ==
    (TITLE_429 \in p.title) \/ ("too many requests" \in p.src)

\* checks of run_complete_flow_once after steps 1 and 2; "proceed" = fall through
checks_after_accept(p) ==
    IF is_request_rejected(p) THEN "rejected"
    ELSE IF is_rate_limited_429(p) THEN "rate_limited"
    ELSE "proceed"

\* checks of run_complete_flow_once after step 3
checks_after_acInfo(p) ==
    IF URL_TIMEOUT \in p.url THEN "timeout"
    ELSE IF is_request_rejected(p) THEN "rejected"
    ELSE IF is_rate_limited_429(p) THEN "rate_limited"
    ELSE "proceed"

\* the classification of fill_acEntrada_and_submit gets as far as the lookup
\* of btnEnviar
still_on_acEntrada(p) ==
    /\ URL_TIMEOUT \notin p.url
    /\ ~is_request_rejected(p)
    /\ ~is_rate_limited_429(p)
    /\ URL_VALIDAR \notin p.url
    /\ URL_ENTRADA \in p.url

\* classification at the end of fill_acEntrada_and_submit (after a transition);
\* the try and the except branch of the lookup return the same tag
fill_classify(p) ==
    IF URL_TIMEOUT \in p.url THEN "timeout"
    ELSE IF is_request_rejected(p) THEN "rejected"
    ELSE IF is_rate_limited_429(p) THEN "rate_limited"
    ELSE IF URL_VALIDAR \in p.url THEN "validate"
    ELSE IF URL_ENTRADA \in p.url
           THEN (IF p.probe = "present" THEN "no_transition" ELSE "no_transition")
    ELSE "ok"

\* ----------------------------------------------------- wait_for_transition
DomSizes == {20, 100, 149, 150}
DomSamples == DomSizes \cup {-1}          \* get_dom_signature: -1 when the script fails
Captures == {100, -1}                     \* prev_sig as click_with_transition captured it
\* what one poll can meet: the location, the clicked element, the DOM size.
\* A probe that raises has no value, and nothing is read after a raise that propagates.
Samples ==
    [url : {"same", "changed"}, el : {"valid", "stale"}, sig : DomSamples]
        \cup [url : {"same", "changed"}, el : {"raises"}, sig : {-2}]
        \cup [url : {"raises"}, el : {"-"}, sig : {-2}]

NoWait == [prev_sig |-> -2, polls |-> 0, url |-> "-", el |-> "-", sig |-> -2, result |-> "-"]

dom_changed_strict(cur_sig, prev_sig) == cur_sig # -1 /\ Abs(cur_sig - prev_sig) > DOM_SIG_DELTA
dom_changed(cur_sig, prev_sig) == cur_sig # -1 /\ Abs(cur_sig - prev_sig) >= DOM_SIG_DELTA

\* a detector that takes any change of the DOM size for a transition
poll_once_any_delta(u, e, g, prev_sig) ==
    IF u = "raises" THEN "raised"
    ELSE IF u = "changed" THEN "true"
    ELSE IF e = "stale" THEN "true"
    ELSE IF e = "raises" THEN "raised"
    ELSE IF g # -1 /\ g # prev_sig THEN "true"
    ELSE "continue"
\* one iteration of the polling loop: "true", "raised" or "continue".
\* Both callers pass prev_url = driver.current_url (never empty), the clicked
\* element and prev_sig, so the three tests are all armed.
poll_once(u, e, g, prev_sig) ==
    IF u = "raises" THEN "raised"
    ELSE IF u = "changed" THEN "true"
    ELSE IF e = "stale" THEN "true"
    ELSE IF e = "raises" THEN "raised"
    ELSE IF dom_changed(g, prev_sig) THEN "true"
    ELSE "continue"

\* ------------------------------------------------------------------ state
Configs ==
    { [auto |-> FALSE, avail |-> FALSE, key |-> "unset"],
      [auto |-> TRUE,  avail |-> FALSE, key |-> "set"],
      [auto |-> TRUE,  avail |-> TRUE,  key |-> "unset"],
      [auto |-> TRUE,  avail |-> TRUE,  key |-> "your_api_key_here"],
      [auto |-> TRUE,  avail |-> TRUE,  key |-> "set"] }

NoSleep == [kind |-> "-", delay |-> 0, first |-> FALSE]
\* kind, cells: the slot handler and the cells it has left; ch: the challenge
\* on the page when process_captcha was called; captcha: what it returned;
\* commits: reservation script calls that returned; final: the text after the
\* click on btnConfirmar
NoLoc == [kind |-> "-", cells |-> 0, ch |-> "-", captcha |-> "-", commits |-> 0,
          final |-> "-"]
NoCall == [base |-> 0, cap |-> 0, previous |-> 0, k |-> 0, delay |-> -1]

Terminal == {"config_error", "done_success", "done_exhausted", "crashed", "interrupted"}

Init ==
    /\ pc = "main"
    /\ cfg \in Configs
    /\ attempt = 0
    /\ last_backoff = 0
    /\ outcome = "none"
    /\ retained = FALSE
    /\ driver = "none"
    /\ step = 0
    /\ trail = << >>
    /\ wt = NoWait
    /\ page = NoPage
    /\ loc = NoLoc
    /\ opened = 0
    /\ live = 0
    /\ sleeps = 0
    /\ lastSleep = NoSleep
    /\ hist = << >>
    /\ fault = "none"
    /\ alarms = << >>
    /\ raised = "none"
    /\ bo = NoCall

\* ------------------------------------------- run_complete_flow_once exits
\* a return that leaves the session open
FlowReturn_keep(o) ==
    /\ outcome' = o
    /\ retained' = FALSE
    /\ UNCHANGED <<driver, live>>
    /\ pc' = "after_attempt"
    /\ step' = 0
\* `driver.quit(); return o, None`
FlowReturn(o) ==
    /\ outcome' = o
    /\ retained' = FALSE
    /\ driver' = "quit"
    /\ live' = live - 1
    /\ pc' = "after_attempt"
    /\ step' = 0

\* a handler that returns "error" without quitting the session
FlowException_leak ==
    /\ outcome' = "error"
    /\ raised' = "propagated"
    /\ retained' = FALSE
    /\ UNCHANGED <<driver, live>>
    /\ pc' = "after_attempt"
    /\ step' = 0
\* the handler of (WebDriverException, TimeoutException)
FlowException ==
    /\ outcome' = "error"
    /\ raised' = "propagated"
    /\ retained' = FALSE
    /\ driver' = IF driver = "open" THEN "quit" ELSE driver
    /\ live' = IF driver = "open" THEN live - 1 ELSE live
    /\ pc' = "after_attempt"
    /\ step' = 0

\* the two returns of the confirmed branch
FlowSuccess(keep) ==
    /\ outcome' = "success"
    /\ retained' = keep
    /\ driver' = IF keep THEN driver ELSE "quit"
    /\ live' = IF keep THEN live ELSE live - 1
    /\ pc' = "after_attempt"
    /\ step' = 0

\* an exception no handler of the program catches: the process dies where it is
\* (its frames are gone; the browser session, if open, stays open)
Propagate(f) ==
    /\ pc' = IF f = "KeyboardInterrupt" THEN "interrupted" ELSE "crashed"
    /\ fault' = f
    /\ step' = 0 /\ wt' = NoWait /\ page' = NoPage /\ loc' = NoLoc /\ lastSleep' = NoSleep
    /\ UNCHANGED <<cfg, attempt, last_backoff, outcome, retained, driver, trail,
                   opened, live, sleeps, hist, alarms, raised, bo>>

StartStep(s, p) ==
    /\ pc' = p
    /\ step' = s
    /\ trail' = Append(trail, s)

\* ------------------------------------------------------------------- main
\* the two configuration checks at the top of main
config_ok(c) == ~(c.auto /\ ~c.avail) /\ ~(c.auto /\ c.key = "unset")

MainCheck ==
    /\ pc = "main"
    /\ pc' = IF config_ok(cfg) THEN "loop" ELSE "config_error"
    /\ UNCHANGED <<cfg, outcome, retained, driver, live, fault, raised, bo>>
    /\ UNCHANGED mainVars /\ UNCHANGED flowVars

\* for attempt in range(1, MAX_RETRIES + 1)
loop_has_next_inclusive(a) == a <= MAX_RETRIES
loop_has_next(a) == a < MAX_RETRIES

LoopNext ==
    /\ pc = "loop"
    /\ loop_has_next(attempt)
    /\ attempt' = attempt + 1
    /\ pc' = "start_driver"
    /\ outcome' = "none"
    /\ retained' = FALSE
    /\ driver' = "none"
    /\ trail' = << >>
    /\ UNCHANGED <<cfg, step, wt, page, loc, last_backoff, opened, live, sleeps,
                   lastSleep, hist, fault, alarms, raised, bo>>

\* an exhausted loop that reports nothing
LoopExhausted_silent ==
    /\ pc = "loop"
    /\ ~loop_has_next(attempt)
    /\ pc' = "alarm_failure"
    /\ UNCHANGED <<cfg, outcome, retained, driver, live, fault, raised, bo, attempt,
                   last_backoff, opened, sleeps, lastSleep, hist, alarms>>
    /\ UNCHANGED flowVars
\* "[fatal] Reached max retries without success." ... play_alarm("failure", 30)
LoopExhausted ==
    /\ pc = "loop"
    /\ ~loop_has_next(attempt)
    /\ pc' = "alarm_failure"
    /\ alarms' = Append(alarms, "failure")
    /\ UNCHANGED <<cfg, outcome, retained, driver, live, fault, raised, bo, attempt,
                   last_backoff, opened, sleeps, lastSleep, hist>>
    /\ UNCHANGED flowVars

\* time.sleep(1.0 + random.random() * 1.5)
cooloff_delay(k) == TicksPerSecond + (3 * TicksPerSecond * k) \div (2 * RandSteps)

\* last_backoff after a sleep of the given kind
backoff_after_reset(kind, delay, previous) == IF kind = "backoff" THEN delay ELSE 0
backoff_after(kind, delay, previous) == IF kind = "backoff" THEN delay ELSE previous

\* the body of the loop after run_complete_flow_once has returned
MainAfterAttempt ==
    /\ pc = "after_attempt"
    /\ page' = NoPage
    /\ loc' = NoLoc
    /\ raised' = "none"
    /\ IF outcome = "success" /\ retained
         THEN /\ pc' = "alarm_success"
              /\ alarms' = Append(alarms, "success")
              /\ hist' = Append(hist, "success")
              /\ UNCHANGED <<sleeps, lastSleep>>
         ELSE /\ pc' = "sleeping"
              /\ sleeps' = sleeps + 1
              /\ UNCHANGED alarms
              /\ IF outcome = "rate_limited"
                   THEN /\ hist' = Append(hist, "rate_limited")
                        /\ \E k \in Rand :
                             lastSleep' =
                               [kind |-> "backoff",
                                delay |-> backoff_sleep(BACKOFF_BASE * TicksPerSecond,
                                                        BACKOFF_CAP * TicksPerSecond,
                                                        last_backoff, k),
                                first |-> (last_backoff <= 0)]
                   ELSE /\ hist' = Append(hist, "other")
                        /\ \E k \in Rand :
                             lastSleep' = [kind |-> "cooloff", delay |-> cooloff_delay(k),
                                           first |-> FALSE]
    /\ UNCHANGED <<cfg, attempt, last_backoff, outcome, retained, driver, live, step, trail,
                   wt, opened, fault, bo>>

\* the sleep returns; `last_backoff = backoff_sleep(...)` or nothing; next iteration
Wake ==
    /\ pc = "sleeping"
    /\ last_backoff' = backoff_after(lastSleep.kind, lastSleep.delay, last_backoff)
    /\ lastSleep' = NoSleep
    /\ pc' = "loop"
    /\ UNCHANGED <<cfg, attempt, outcome, retained, driver, live, opened, sleeps, hist, fault,
                   alarms, raised, bo>>
    /\ UNCHANGED flowVars

\* play_alarm returns after its `seconds`
AlarmDone ==
    /\ pc \in {"alarm_success", "alarm_failure"}
    /\ pc' = IF pc = "alarm_success" THEN "idle_wait" ELSE "done_exhausted"
    /\ UNCHANGED <<cfg, outcome, retained, driver, live, fault, raised, bo>>
    /\ UNCHANGED mainVars /\ UNCHANGED flowVars

\* a handler of Ctrl+C in the idle wait that returns without quitting
Interrupt_no_quit ==
    /\ pc \notin Terminal
    /\ IF pc = "idle_wait"
         THEN /\ pc' = "done_success"
              /\ UNCHANGED <<cfg, attempt, last_backoff, outcome, retained, driver, live, step,
                             trail, wt, page, loc, opened, sleeps, lastSleep, hist, fault,
                             alarms, raised, bo>>
         ELSE Propagate("KeyboardInterrupt")
\* Ctrl+C: caught only around the idle wait after a success
Interrupt ==
    /\ pc \notin Terminal
    /\ IF pc = "idle_wait"
         THEN /\ driver' = "quit"
              /\ live' = live - 1
              /\ pc' = "done_success"
              /\ UNCHANGED <<cfg, attempt, last_backoff, outcome, retained, step, trail,
                             wt, page, loc, opened, sleeps, lastSleep, hist, fault, alarms,
                             raised, bo>>
         ELSE Propagate("KeyboardInterrupt")

\* the status the process ends with (`if __name__ == "__main__": main()`):
\* 0 when main returns, 1 on an uncaught exception, 130 on an uncaught
\* KeyboardInterrupt; -1 while it runs
exit_status ==
    CASE pc \in {"config_error", "done_success", "done_exhausted"} -> 0
      [] pc = "crashed" -> 1
      [] pc = "interrupted" -> 130
      [] OTHER -> -1

\* ------------------------------------------------ run_complete_flow_once
StartDriver ==
    /\ pc = "start_driver"
    /\ \E e \in {"ok", "fault"} :
         IF e = "ok"
           THEN /\ driver' = "open"
                /\ opened' = opened + 1
                /\ live' = live + 1
                /\ StartStep(1, "pre")
                /\ UNCHANGED <<outcome, retained, raised>>
           ELSE /\ FlowException
                /\ UNCHANGED <<opened, trail>>
    /\ UNCHANGED <<cfg, attempt, last_backoff, wt, page, loc, sleeps, lastSleep, hist,
                   fault, alarms, bo>>

PreEnv(s) == IF s = 2 THEN {"ok", "fault", "no_tramites"} ELSE {"ok", "fault"}

\* steps 1-4 up to and including the click: the waits for the step's controls,
\* the capture of prev_url and prev_sig, the click
StepPre ==
    /\ pc = "pre"
    /\ step \in 1 .. 4
    /\ \E e \in PreEnv(step) :
         CASE e = "ok" ->
                /\ \E g \in Captures : wt' = [NoWait EXCEPT !.prev_sig = g]
                /\ pc' = "poll"
                /\ page' = NoPage
                /\ UNCHANGED <<cfg, attempt, last_backoff, outcome, retained, driver, live, step,
                               trail, loc, opened, sleeps, lastSleep, hist, fault, alarms,
                               raised, bo>>
           [] e = "fault" ->
                /\ FlowException
                /\ page' = NoPage
                /\ UNCHANGED <<cfg, attempt, last_backoff, trail, wt, loc, opened, sleeps,
                               lastSleep, hist, fault, alarms, bo>>
           [] e = "no_tramites" -> Propagate("RuntimeError")

\* one pass of `while time.time() < end` in wait_for_transition
Poll ==
    /\ pc = "poll"
    /\ wt.polls < MaxPolls
    /\ \E m \in Samples :
         LET r == poll_once(m.url, m.el, m.sig, wt.prev_sig)
             seen == [wt EXCEPT !.polls = @ + 1, !.url = m.url, !.el = m.el, !.sig = m.sig]
         IN  IF r = "continue"
               THEN \E more \in BOOLEAN :
                      /\ (wt.polls + 1 >= MaxPolls) => ~more
                      /\ IF more THEN /\ wt' = seen
                                      /\ pc' = "poll"
                                 ELSE /\ wt' = [seen EXCEPT !.result = "false"]
                                      /\ pc' = "waited"
               ELSE /\ wt' = [seen EXCEPT !.result = r]
                    /\ pc' = "waited"
    /\ UNCHANGED <<cfg, attempt, last_backoff, outcome, retained, driver, live, step, trail,
                   page, loc, opened, sleeps, lastSleep, hist, fault, alarms, raised, bo>>

\* the caller of wait_for_transition acts on its result
AfterWait ==
    /\ pc = "waited"
    /\ wt' = NoWait
    /\ CASE wt.result = "true" ->
                /\ pc' = "landed"
                /\ UNCHANGED <<outcome, retained, driver, live, step, raised>>
         [] wt.result = "false" -> FlowReturn("no_transition") /\ UNCHANGED raised
         [] wt.result = "raised" -> FlowException
    /\ UNCHANGED <<cfg, attempt, last_backoff, trail, page, loc, opened, sleeps,
                   lastSleep, hist, fault, alarms, bo>>

\* what run_complete_flow_once does with the page a step landed on
step_verdict(s, p) ==
    CASE s \in {1, 2} -> checks_after_accept(p)
      [] s = 3 -> checks_after_acInfo(p)
      [] s = 4 -> IF fill_classify(p) = "ok" THEN "proceed" ELSE fill_classify(p)

\* a sequencer that runs the step again
next_step_again(s) == s
\* the step that follows step s in run_complete_flow_once
next_step(s) == s + 1

\* the page a step landed on, with the lookup of btnEnviar where step 4 makes it
Landing(s) ==
    { q \in { [url |-> p.url, title |-> p.title, src |-> p.src, probe |-> b] :
                p \in Pages, b \in Probes \cup {"-"} } :
        (q.probe \in Probes) <=> (s = 4 /\ still_on_acEntrada(q)) }

\* wait_ready after the transition, then the classification of the page
Landed ==
    /\ pc = "landed"
    /\ \E e \in {"ok", "fault"} :
         IF e = "fault"
           THEN /\ FlowException
                /\ UNCHANGED <<page, trail>>
           ELSE \E p \in Landing(step) :
                  /\ page' = p
                  /\ IF step_verdict(step, p) = "proceed"
                       THEN /\ StartStep(next_step(step),
                                         IF step < 4 THEN "pre" ELSE "await_consultar")
                            /\ UNCHANGED <<outcome, retained, driver, live, raised>>
                       ELSE /\ FlowReturn(step_verdict(step, p))
                            /\ UNCHANGED <<trail, raised>>
    /\ UNCHANGED <<cfg, attempt, last_backoff, wt, loc, opened, sleeps, lastSleep, hist,
                   fault, alarms, bo>>

\* wait_for_btnConsultar
AwaitConsultar ==
    /\ pc = "await_consultar"
    /\ page' = NoPage
    /\ \E e \in {"present", "timeout", "fault"} :
         CASE e = "present" ->
                /\ StartStep(6, "click_consultar")
                /\ UNCHANGED <<outcome, retained, driver, live, raised>>
           [] e = "timeout" ->
                FlowReturn("no_consultar") /\ raised' = "absorbed" /\ UNCHANGED trail
           [] e = "fault" -> FlowException /\ UNCHANGED trail
    /\ UNCHANGED <<cfg, attempt, last_backoff, wt, loc, opened, sleeps, lastSleep, hist,
                   fault, alarms, bo>>

\* click_btnConsultar: every exception is turned into False
ClickConsultar ==
    /\ pc = "click_consultar"
    /\ \E e \in {"ok", "exception"} :
         IF e = "ok"
           THEN /\ StartStep(7, "office")
                /\ UNCHANGED <<outcome, retained, driver, live, raised>>
           ELSE FlowReturn("no_consultar_click") /\ raised' = "absorbed" /\ UNCHANGED trail
    /\ UNCHANGED <<cfg, attempt, last_backoff, wt, page, loc, opened, sleeps, lastSleep,
                   hist, fault, alarms, bo>>

\* office_selection
Office ==
    /\ pc = "office"
    /\ \E e \in {"ok", "timeout", "no_offices", "exception"} :
         IF e = "ok"
           THEN /\ StartStep(8, "contact")
                /\ UNCHANGED <<outcome, retained, driver, live, raised>>
           ELSE /\ FlowReturn("office_selection_failed")
                /\ raised' = IF e = "no_offices" THEN raised ELSE "absorbed"
                /\ UNCHANGED trail
    /\ UNCHANGED <<cfg, attempt, last_backoff, wt, page, loc, opened, sleeps, lastSleep,
                   hist, fault, alarms, bo>>

\* contact_info
Contact ==
    /\ pc = "contact"
    /\ \E e \in {"ok", "exception"} :
         IF e = "ok"
           THEN /\ StartStep(9, "cita")
                /\ UNCHANGED <<outcome, retained, driver, live, raised>>
           ELSE FlowReturn("contact_info_failed") /\ raised' = "absorbed" /\ UNCHANGED trail
    /\ UNCHANGED <<cfg, attempt, last_backoff, wt, page, loc, opened, sleeps, lastSleep,
                   hist, fault, alarms, bo>>

\* cita_selection up to the first call of process_captcha:
\* the body text picks handle_timer_slots, handle_time_slots or neither
Cita ==
    /\ pc = "cita"
    /\ \E kind \in {"timer", "times", "none"}, n \in 0 .. MaxCells, broken \in BOOLEAN :
         IF kind = "none" \/ broken \/ n = 0
           THEN /\ FlowReturn("cita_selection_failed")
                /\ raised' = IF kind # "none" /\ broken THEN "absorbed" ELSE raised
                /\ UNCHANGED loc
           ELSE /\ loc' = [NoLoc EXCEPT !.kind = kind,
                                        !.cells = IF kind = "timer" THEN 1 ELSE n]
                /\ pc' = "captcha"
                /\ UNCHANGED <<outcome, retained, driver, live, step, raised>>
    /\ UNCHANGED <<cfg, attempt, last_backoff, trail, wt, page, opened, sleeps, lastSleep,
                   hist, fault, alarms, bo>>

\* the slot handler gives up (timer) or moves on to the next cell (times)
SlotFailed ==
    IF loc.kind = "times" /\ loc.cells > 1
      THEN /\ loc' = [loc EXCEPT !.cells = @ - 1, !.captcha = "-", !.ch = "-"]
           /\ pc' = "captcha"
           /\ UNCHANGED <<outcome, retained, driver, live, step, raised>>
      ELSE /\ FlowReturn("cita_selection_failed")
           /\ raised' = "absorbed"
           /\ loc' = [loc EXCEPT !.cells = 0]

\* what the page shows to process_captcha
Challenges == {"recaptcha", "image", "none"}

\* process_captcha in automatic mode, given the challenge found and the solver's answer
auto_captcha(c, ch, solved) ==
    IF ~c.avail THEN FALSE
    ELSE IF c.key \in {"unset", "your_api_key_here"} THEN FALSE
    ELSE IF ch = "none" THEN TRUE
    ELSE solved

\* process_captcha gets as far as looking for a challenge on the page
detects(c) == c.auto /\ c.avail /\ c.key \notin {"unset", "your_api_key_here"}

\* a slot handler that goes on whatever process_captcha returned
slot_goes_on_always(r) == TRUE
\* `if not process_captcha(driver): return False`
slot_goes_on(r) == r

\* process_captcha, called by the slot handler; the lookups of the challenge
\* are its only driver calls
ProcessCaptcha ==
    /\ pc = "captcha"
    /\ \E ch \in Challenges :
         IF ~cfg.auto
           THEN /\ pc' = "operator_captcha"
                /\ loc' = [loc EXCEPT !.ch = ch]
                /\ UNCHANGED <<outcome, retained, driver, live, step, raised>>
           ELSE \E solved \in BOOLEAN, raises \in BOOLEAN :
                  IF raises /\ detects(cfg)
                    THEN SlotFailed
                    ELSE LET r == auto_captcha(cfg, ch, solved)
                             seen == [loc EXCEPT !.ch = ch,
                                                 !.captcha = IF r THEN "ok" ELSE "failed"]
                         IN  IF slot_goes_on(r)
                               THEN /\ loc' = seen
                                    /\ pc' = "commit"
                                    /\ UNCHANGED <<outcome, retained, driver, live, step,
                                                   raised>>
                               ELSE /\ FlowReturn("cita_selection_failed")
                                    /\ loc' = seen
                                    /\ UNCHANGED raised
    /\ UNCHANGED <<cfg, attempt, last_backoff, trail, wt, page, opened, sleeps, lastSleep,
                   hist, fault, alarms, bo>>

\* manual mode: input() returns when the operator presses ENTER
OperatorCaptcha ==
    /\ pc = "operator_captcha"
    /\ loc' = [loc EXCEPT !.captcha = "ok"]
    /\ pc' = "commit"
    /\ UNCHANGED <<cfg, attempt, last_backoff, outcome, retained, driver, live, step, trail, wt,
                   page, opened, sleeps, lastSleep, hist, fault, alarms, raised, bo>>

\* the reservation script call: envia() or confirmarHueco(...)
Commit ==
    /\ pc = "commit"
    /\ \E e \in {"ok", "exception"} :
         IF e = "ok"
           THEN /\ loc' = [loc EXCEPT !.commits = @ + 1]
                /\ StartStep(10, "confirm")
                /\ UNCHANGED <<outcome, retained, driver, live, raised>>
           ELSE SlotFailed /\ UNCHANGED trail
    /\ UNCHANGED <<cfg, attempt, last_backoff, wt, page, opened, sleeps, lastSleep, hist,
                   fault, alarms, bo>>

\* confirmation_step up to the SMS prompt
Confirm ==
    /\ pc = "confirm"
    /\ \E e \in {"not_confirmation", "sms", "no_sms"} :
         CASE e = "not_confirmation" -> FlowReturn("not_confirmation")
           [] e = "sms" -> pc' = "operator_sms" /\ UNCHANGED <<outcome, retained, driver, live, step>>
           [] e = "no_sms" -> pc' = "confirm_click" /\ UNCHANGED <<outcome, retained, driver, live, step>>
    /\ UNCHANGED <<cfg, attempt, last_backoff, trail, wt, page, loc, opened, sleeps,
                   lastSleep, hist, fault, alarms, raised, bo>>

\* input("SMS Code: ") returns
OperatorSms ==
    /\ pc = "operator_sms"
    /\ pc' = "confirm_click"
    /\ UNCHANGED <<cfg, attempt, last_backoff, outcome, retained, driver, live, step, trail, wt,
                   page, loc, opened, sleeps, lastSleep, hist, fault, alarms, raised, bo>>

\* a confirmation that takes any final text for a confirmed appointment
confirm_result_any(text) == "success"
\* `if "CITA CONFIRMADA Y GRABADA" in final_text`
confirm_result(text) == IF text = "confirmed" THEN "success" ELSE "failed"

\* the click on btnConfirmar and the look at the final text
ConfirmClick ==
    /\ pc = "confirm_click"
    /\ \E e \in {"confirmed", "other", "exception"} :
         IF e = "exception"
           THEN FlowReturn("error") /\ raised' = "absorbed" /\ UNCHANGED loc
           ELSE /\ loc' = [loc EXCEPT !.final = e]
                /\ UNCHANGED raised
                /\ IF confirm_result(e) = "success"
                     THEN FlowSuccess(KEEP_OPEN_ON_SUCCESS)
                     ELSE FlowReturn(confirm_result(e))
    /\ UNCHANGED <<cfg, attempt, last_backoff, trail, wt, page, opened, sleeps,
                   lastSleep, hist, fault, alarms, bo>>

\* ---------------------------------------------------------- specification
Next ==
    \/ MainCheck
    \/ LoopNext
    \/ LoopExhausted
    \/ MainAfterAttempt
    \/ Wake
    \/ AlarmDone
    \/ Interrupt
    \/ StartDriver
    \/ StepPre
    \/ Poll
    \/ AfterWait
    \/ Landed
    \/ AwaitConsultar
    \/ ClickConsultar
    \/ Office
    \/ Contact
    \/ Cita
    \/ ProcessCaptcha
    \/ OperatorCaptcha
    \/ Commit
    \/ Confirm
    \/ OperatorSms
    \/ ConfirmClick

Spec == Init /\ [][Next]_vars

\* backoff_sleep called on its own, on arguments drawn from the bounds
InitBackoff ==
    /\ pc = "backoff_call"
    /\ bo \in [base : 1 .. MaxBase, cap : 1 .. MaxCap, previous : -1 .. MaxPrev,
                k : {0}, delay : {-1}]
    /\ cfg = [auto |-> FALSE, avail |-> FALSE, key |-> "unset"]
    /\ attempt = 0 /\ last_backoff = 0 /\ outcome = "none" /\ retained = FALSE
    /\ driver = "none" /\ step = 0 /\ trail = << >> /\ wt = NoWait /\ page = NoPage
    /\ loc = NoLoc /\ opened = 0 /\ live = 0 /\ sleeps = 0 /\ lastSleep = NoSleep
    /\ hist = << >> /\ fault = "none" /\ alarms = << >> /\ raised = "none"

BackoffCall ==
    /\ pc = "backoff_call"
    /\ \E k \in Rand :
         bo' = [bo EXCEPT !.k = k,
                          !.delay = backoff_sleep(bo.base, bo.cap, bo.previous, k)]
    /\ pc' = "backoff_returned"
    /\ UNCHANGED <<cfg, attempt, last_backoff, outcome, retained, driver, live, step, trail,
                   wt, page, loc, opened, sleeps, lastSleep, hist, fault, alarms, raised>>

NextBackoff == Next \/ BackoffCall

SpecBackoff == (Init \/ InitBackoff) /\ [][NextBackoff]_vars

\* the thread of control is inside the program and not waiting on the operator
ProgramStep ==
    \/ MainCheck \/ LoopNext \/ LoopExhausted \/ MainAfterAttempt \/ Wake \/ AlarmDone
    \/ StartDriver \/ StepPre \/ Poll \/ AfterWait \/ Landed \/ AwaitConsultar
    \/ ClickConsultar \/ Office \/ Contact \/ Cita \/ ProcessCaptcha \/ Commit
    \/ Confirm \/ ConfirmClick

\* every sleep, poll and driver call of the program returns; the operator and
\* the interrupt owe nothing
FairSpec == Init /\ [][Next]_vars /\ WF_vars(ProgramStep)

\* ----------------------------------------------------------------- claims
InsideFlow ==
    pc \in {"start_driver", "pre", "poll", "waited", "landed", "await_consultar",
            "click_consultar", "office", "contact", "cita", "captcha", "operator_captcha",
            "commit", "confirm", "operator_sms", "confirm_click"}

OperatorWait == pc \in {"operator_captcha", "operator_sms"}

\* C1: in any run of main the number of attempts started, and of sessions
\* acquired by them, never exceeds MAX_RETRIES.
C1_AttemptsWithinBudget == attempt <= MAX_RETRIES /\ opened <= MAX_RETRIES

C1_Witness == attempt = MAX_RETRIES /\ opened = MAX_RETRIES /\ pc = "after_attempt"

\* C2: once control has left run_complete_flow_once without handing the
\* session to main, the session has been quit, whichever way the function
\* was left (a step's failure return, a classifier's return, a fault raised
\* inside a step).
C2_SessionReleasedOnExit ==
    (~InsideFlow /\ ~retained /\ fault # "KeyboardInterrupt") => driver # "open"

\* C3: every attempt that was started has handed an Outcome to main by the
\* time control is outside run_complete_flow_once; no step-level condition
\* leaves it as a fault.
C3_AttemptEndsWithOutcome ==
    (~InsideFlow /\ attempt > 0 /\ fault # "KeyboardInterrupt")
        => (outcome # "none" /\ fault = "none")

\* C4: after an attempt has returned success no further attempt is started,
\* and in the idle wait after a success the session of that attempt is open.
C4_SuccessEndsLoop ==
    /\ [][outcome = "success" => (attempt' = attempt /\ opened' = opened)]_vars
    /\ [](pc = "idle_wait" => (driver = "open" /\ retained /\ live = 1))

C4_Witness == pc = "idle_wait" /\ attempt < MAX_RETRIES /\ driver = "open"

\* C5: when no attempt succeeds, the loop ends only after exactly MAX_RETRIES
\* attempts, by reporting failure once; and unless an attempt succeeds, the
\* process is killed (fault, interrupt, bad configuration) or an attempt waits
\* on the operator for ever, the run reaches that end.
C5_ExhaustsAfterFullBudget ==
    /\ [](pc \in {"alarm_failure", "done_exhausted"}
            => (attempt = MAX_RETRIES /\ alarms = <<"failure">>))
    /\ \/ <>(pc = "done_exhausted")
       \/ <>(outcome = "success" \/ pc \in {"config_error", "crashed", "interrupted"})
       \/ <>[]OperatorWait

\* every attempt of the budget ended in a failure other than rate_limited,
\* the last one in no_transition, and the run has reported failure and stopped
C5_Witness ==
    /\ pc = "done_exhausted"
    /\ attempt = MAX_RETRIES
    /\ Len(hist) = MAX_RETRIES
    /\ \A i \in DOMAIN hist : hist[i] = "other"
    /\ outcome = "no_transition"

\* the bounds C6 states for a delay d drawn with the given arguments
in_backoff_range(base, cap, previous, d) ==
    /\ previous <= 0 => (base <= d /\ d <= 2 * base)
    /\ previous > 0 => (base <= d /\ d <= Min(cap, 3 * previous))
    /\ d <= cap

\* the backoff sleeps of main obey the recurrence on the delay slept before
MainBackoffInRange ==
    (pc = "sleeping" /\ lastSleep.kind = "backoff")
        => in_backoff_range(BACKOFF_BASE * TicksPerSecond, BACKOFF_CAP * TicksPerSecond,
                            last_backoff, lastSleep.delay)

\* C6 as stated: for every 0 < base <= cap the delay of backoff_sleep is in
\* [base, 2*base] when previous <= 0, in [base, min(cap, 3*previous)] when
\* previous > 0, and never above cap; and main's delays obey the recurrence.
C6_BackoffRangeAnyBase ==
    /\ (bo.delay # -1 /\ 0 < bo.base /\ bo.base <= bo.cap)
          => in_backoff_range(bo.base, bo.cap, bo.previous, bo.delay)
    /\ MainBackoffInRange

\* C6 amended: the same bounds for 0 < base with 2*base <= cap and a previous
\* that is <= 0 or at least base/3 (every delay emitted earlier is); and
\* main's delays (base 5, cap 600) obey the recurrence.
C6_BackoffRange ==
    /\ (bo.delay # -1 /\ 0 < bo.base /\ 2 * bo.base <= bo.cap
          /\ (bo.previous <= 0 \/ 3 * bo.previous >= bo.base))
          => in_backoff_range(bo.base, bo.cap, bo.previous, bo.delay)
    /\ MainBackoffInRange

\* the cap cuts a draw of the recurrence
C6_Witness ==
    /\ pc = "backoff_returned"
    /\ 2 * bo.base <= bo.cap
    /\ bo.previous > 0
    /\ uniform(bo.base, 3 * bo.previous, bo.k) > bo.cap
    /\ bo.delay = bo.cap

\* C7: every attempt that does not succeed is followed by exactly one sleep:
\* a backoff sleep, whose delay becomes last_backoff, after rate_limited; a
\* cool-off sleep of 1.0 to 2.5 seconds, which leaves last_backoff alone,
\* after anything else.  last_backoff is never reset: only the first
\* rate_limited outcome of a run draws its delay from the first-delay formula.
C7_OneSleepPerFailure ==
    /\ [](pc \in {"loop", "alarm_failure", "done_exhausted"} => sleeps = attempt)
    /\ [](pc = "sleeping" =>
            /\ sleeps = attempt
            /\ (lastSleep.kind = "backoff") <=> (outcome = "rate_limited")
            /\ (lastSleep.kind = "cooloff") <=> (outcome # "rate_limited")
            /\ lastSleep.kind = "cooloff" =>
                 (TicksPerSecond <= lastSleep.delay /\ 2 * lastSleep.delay <= 5 * TicksPerSecond)
            /\ lastSleep.kind = "backoff" =>
                 (lastSleep.first <=>
                    Cardinality({i \in DOMAIN hist : hist[i] = "rate_limited"}) = 1))
    /\ [][(pc = "sleeping" /\ pc' = "loop") =>
            last_backoff' = IF outcome = "rate_limited" THEN lastSleep.delay
                                                        ELSE last_backoff]_vars
    /\ [][last_backoff' # last_backoff =>
            (pc = "sleeping" /\ outcome = "rate_limited" /\ last_backoff' > 0)]_vars

\* a rate_limited outcome after a failure of another kind after a rate_limited one
C7_Witness ==
    /\ pc = "sleeping"
    /\ hist = <<"rate_limited", "other", "rate_limited">>
    /\ lastSleep.kind = "backoff"
    /\ ~lastSleep.first
    /\ last_backoff > 0

\* the classifier of step 4 has looked at `page` and the attempt ended on it
ClassifiedAtSubmit ==
    pc = "after_attempt" /\ trail = <<1, 2, 3, 4>> /\ page # NoPage

\* C8: in the classification of fill_acEntrada_and_submit, a page that carries
\* the bot-block marker while its location carries the next-step marker is
\* classified as rejected.
C8_BlockBeatsNextStep ==
    (ClassifiedAtSubmit /\ is_request_rejected(page) /\ URL_VALIDAR \in page.url)
        => outcome = "rejected"

\* C9: whatever else a classified page carries, the bot-block marker yields
\* rejected, and the rate-limit marker without the bot-block marker yields
\* rate_limited; no page carrying either marker lets the attempt proceed.
C9_BlockThenRateLimitFirst ==
    /\ (pc = "after_attempt" /\ page # NoPage) =>
          /\ is_request_rejected(page) => outcome = "rejected"
          /\ (~is_request_rejected(page) /\ is_rate_limited_429(page))
                => outcome = "rate_limited"
    /\ (pc \in {"pre", "await_consultar"} /\ page # NoPage) =>
          (~is_request_rejected(page) /\ ~is_rate_limited_429(page))

\* the three signals, as the poll that just ended met them
UrlFired == wt.url = "changed"
HandleFired == wt.el = "stale"
DomFired == wt.sig >= 0 /\ Abs(wt.sig - wt.prev_sig) >= DOM_SIG_DELTA
UrlQuiet == wt.url = "same"
HandleQuiet == wt.el = "valid"
DomQuiet == wt.sig >= -1 /\ ~DomFired

\* C10: a poll of wait_for_transition at which exactly one of the three
\* signals has fired, the other two being unchanged, makes it return True.
C10_OneSignalSuffices ==
    (pc = "waited" /\ \/ (UrlFired /\ HandleQuiet /\ DomQuiet)
                      \/ (UrlQuiet /\ HandleFired /\ DomQuiet)
                      \/ (UrlQuiet /\ HandleQuiet /\ DomFired))
        => wt.result = "true"

\* the DOM size alone moved, by exactly DOM_SIG_DELTA, at the second poll
C10_Witness ==
    /\ pc = "waited"
    /\ wt.polls = 2
    /\ UrlQuiet /\ HandleQuiet
    /\ wt.prev_sig >= 0
    /\ Abs(wt.sig - wt.prev_sig) = DOM_SIG_DELTA
    /\ wt.result = "true"

\* the poll that just ended met the captured location, a handle that still
\* resolves and a DOM size less than DOM_SIG_DELTA away from the captured one
PollQuiet ==
    /\ UrlQuiet /\ HandleQuiet
    /\ wt.sig >= 0
    /\ Abs(wt.sig - wt.prev_sig) < DOM_SIG_DELTA

\* C11: wait_for_transition returns, and it returns False when it returns
\* after a poll at which no signal had fired (every earlier poll of the call
\* had let the loop go on, so none had fired there either): once the timeout
\* has elapsed the loop is left with False.
C11_QuietUntilTimeoutIsFalse ==
    /\ []((pc = "waited" /\ PollQuiet) => wt.result = "false")
    /\ (pc = "poll") ~> (pc \in {"waited", "interrupted"})

\* the timeout ran out at the last poll, the DOM size having moved by 49
C11_Witness ==
    /\ pc = "waited"
    /\ wt.polls = MaxPolls
    /\ PollQuiet
    /\ wt.prev_sig = 100 /\ wt.sig = 149
    /\ wt.result = "false"

\* the attempt that just returned was ended by a transport fault
EndedByFault == pc = "after_attempt" /\ raised # "none"

\* the session is released and the attempt is one of the budget
ReleasedAndCounted ==
    /\ driver # "open" /\ live = 0 /\ ~retained
    /\ 1 <= attempt /\ attempt <= MAX_RETRIES
    /\ opened <= attempt
    /\ sleeps = attempt - 1

\* the outcomes of the steps that turn their own exceptions into a failure
AbsorbedOutcomes ==
    {"no_consultar", "no_consultar_click", "office_selection_failed",
     "contact_info_failed", "cita_selection_failed", "error"}

\* the next attempt follows when budget remains
NextAttemptFollows ==
    (EndedByFault /\ attempt < MAX_RETRIES) ~> (pc \in {"start_driver", "interrupted"})

C13_IdleInterruptReleases ==
    /\ [][(pc = "idle_wait" /\ pc' # "idle_wait") =>
            (pc' = "done_success" /\ driver = "open" /\ driver' = "quit" /\ live' = 0)]_vars
    /\ [](pc = "done_success" => (driver = "quit" /\ live = 0 /\ fault = "none"))

\* main has returned after an interrupt in the idle wait of the second attempt
C13_Witness ==
    /\ pc = "done_success"
    /\ outcome = "success"
    /\ attempt = 2 /\ opened = 2
    /\ driver = "quit"

\* where main is once it has announced success, resp. failure
AfterSuccessAlarm == pc \in {"alarm_success", "idle_wait", "done_success"}
AfterFailureAlarm == pc \in {"alarm_failure", "done_exhausted"}

\* C14: play_alarm("success") is called exactly when an attempt has returned
\* success, play_alarm("failure") exactly when the budget is exhausted; an
\* attempt that fails and is followed by another one calls neither, and no
\* run calls both.
C14_NotificationsMatchEnd ==
    /\ alarms \in {<< >>, <<"success">>, <<"failure">>}
    /\ fault = "none" =>
          /\ (alarms = <<"success">>) <=> AfterSuccessAlarm
          /\ (alarms = <<"failure">>) <=> AfterFailureAlarm
    /\ alarms = <<"success">> => (outcome = "success" /\ retained)
    /\ alarms = <<"failure">> =>
          (outcome \notin {"success", "none"} /\ attempt = MAX_RETRIES /\ sleeps = MAX_RETRIES)
    /\ (pc \in {"after_attempt", "sleeping"} /\ outcome # "success") => alarms = << >>

\* a failed attempt, then a successful one: one notification, of success
C14_Witness ==
    /\ pc = "idle_wait"
    /\ hist = <<"other", "success">>
    /\ alarms = <<"success">>

\* C15: a run whose budget is exhausted ends with a non-zero exit status,
\* which a run that ended after a success does not have.
C15_ExhaustedExitsNonZero ==
    pc = "done_exhausted" => exit_status # 0

\* C16: the steps of an attempt start in the order 1, 2, ..., 10, each at
\* most once; the step that runs is the last one started; and when the
\* attempt has returned, no step is started until the next attempt begins.
C16_StepsInOrderOnce ==
    /\ [](Len(trail) <= 10 /\ \A i \in DOMAIN trail : trail[i] = i)
    /\ []((InsideFlow /\ pc # "start_driver") => step = Len(trail))
    /\ [][pc' = "after_attempt" => trail' = trail]_vars
    /\ [][~InsideFlow => (trail' = trail \/ (pc = "loop" /\ trail' = << >>))]_vars

\* office selection, the seventh step, failed and ended the attempt
C16_Witness ==
    /\ pc = "after_attempt"
    /\ trail = <<1, 2, 3, 4, 5, 6, 7>>
    /\ outcome = "office_selection_failed"

\* what run_complete_flow_once returns when cita_selection offers no slot
NoSlotOutcome == "cita_selection_failed"

\* C17: when process_captcha has failed in the slot step, the attempt ends
\* with an outcome that is not the one of "no slot offered", and the
\* confirmation step is not run.
C17_CaptchaFailureNamed ==
    (pc = "after_attempt" /\ loc.captcha = "failed")
        => (outcome # NoSlotOutcome /\ outcome # "success" /\ trail = <<1, 2, 3, 4, 5, 6, 7, 8, 9>>)

\* the personal-info submit landed on `page`
SubmitLanded ==
    /\ page # NoPage
    /\ \/ pc = "after_attempt" /\ trail = <<1, 2, 3, 4>>
       \/ pc = "await_consultar"

NoMarker(p) ==
    URL_TIMEOUT \notin p.url /\ ~is_request_rejected(p) /\ ~is_rate_limited_429(p)

\* C18: when the submit of step 4 lands on /icpplustieb/acValidarEntrada with
\* no bot-block, rate-limit or timeout marker, the attempt goes on to wait
\* for the query control instead of returning.
C18_NextStepLocationProceeds ==
    (SubmitLanded /\ URL_VALIDAR \in page.url /\ NoMarker(page))
        => (pc = "await_consultar" /\ outcome = "none")

\* C19: when the submit of step 4 is still on the entry step, the outcome is
\* a validation failure, not no_transition, if btnEnviar is still present and
\* no_transition if it is not; a location with no known marker proceeds.
C19_ProbeDecidesOutcome ==
    /\ (SubmitLanded /\ still_on_acEntrada(page)) =>
          /\ pc = "after_attempt"
          /\ page.probe = "present" => outcome # "no_transition"
          /\ page.probe = "absent" => outcome = "no_transition"
    /\ (SubmitLanded /\ NoMarker(page) /\ page.url = {}) => pc = "await_consultar"

\* a poll at which reading a signal raised a transport error
SamplingError == wt.url = "raises" \/ wt.el = "raises" \/ wt.sig = -1

\* C20: a transport error raised while a signal is sampled does not leave
\* wait_for_transition: the call returns True or False, and True only when a
\* signal that was read has fired.
C20_SamplingErrorsSwallowed ==
    (pc = "waited" /\ SamplingError) =>
        /\ wt.result \in {"true", "false"}
        /\ wt.result = "true" => (UrlFired \/ HandleFired)

\* C21: the reservation script call is made only when process_captcha has
\* returned True for the slot at hand; once process_captcha has returned
\* False the attempt is over and no such call was or will be made in it.
C21_CommitOnlyAfterCaptcha ==
    /\ [](pc = "commit" => loc.captcha = "ok")
    /\ [][loc'.commits > loc.commits => (pc = "commit" /\ loc.captcha = "ok")]_vars
    /\ [](loc.captcha = "failed" => (~InsideFlow /\ loc.commits = 0))

\* the solver answered an image challenge and the script call returned
C21_Witness ==
    /\ pc = "confirm"
    /\ cfg.auto
    /\ loc.ch = "image"
    /\ loc.captcha = "ok"
    /\ loc.commits = 1

\* C22: when the page of the slot step carries no challenge, process_captcha
\* neither waits for the operator nor returns False, whatever the captcha
\* mode and the credentials.
C22_NoChallengeNoGate ==
    loc.ch = "none" => (pc # "operator_captcha" /\ loc.captcha # "failed")

\* the steps that click or submit and whose success the claim ties to the detector
InteractionSteps == {1, 2, 3, 4, 6, 7, 8}

\* C23: a step that clicks or submits hands over to the next step only when
\* wait_for_transition has returned True for that interaction.
C23_ProceedOnlyOnTransition ==
    [][(step \in InteractionSteps /\ step' = step + 1) => pc = "landed"]_vars

\* C24: the controller sleeps only while attempts remain, and after the last
\* attempt of the budget last_backoff is not assigned.
C24_NoSleepAfterLastAttempt ==
    /\ [](pc = "sleeping" => attempt < MAX_RETRIES)
    /\ [][attempt = MAX_RETRIES => last_backoff' = last_backoff]_vars

\* C25: at most one session is open at any time; a session is acquired only
\* when none is open, and none is acquired once a success has been retained.
C25_OneSessionAtATime ==
    /\ [](0 <= live /\ live <= 1)
    /\ [](driver = "open" => live = 1)
    /\ [][opened' > opened =>
            (live = 0 /\ live' = 1 /\ ~retained /\ outcome # "success")]_vars
    /\ [][retained => opened' = opened]_vars

\* the session of the second attempt, acquired after the first was quit
C25_Witness ==
    /\ pc = "pre"
    /\ attempt = 2 /\ opened = 2
    /\ driver = "open" /\ live = 1

\* C26: an attempt returns success only from the confirmation step, after
\* all ten steps ran in that attempt and the final text carried the
\* confirmation marker; and main is handed a session only with success.
C26_SuccessOnlyWhenConfirmed ==
    /\ []((pc = "after_attempt" /\ outcome = "success") =>
            /\ trail = <<1, 2, 3, 4, 5, 6, 7, 8, 9, 10>>
            /\ loc.final = "confirmed"
            /\ loc.commits = 1)
    /\ [][(outcome' = "success" /\ outcome # "success") => pc = "confirm_click"]_vars
    /\ [](retained => outcome = "success")
    /\ []((pc = "after_attempt" /\ outcome # "success") => (~retained /\ driver # "open"))

\* the attempt has just returned ("success", driver)
C26_Witness ==
    /\ pc = "after_attempt"
    /\ outcome = "success"
    /\ retained /\ driver = "open"
    /\ loc.final = "confirmed"

\* C27: when the location and the handle are unchanged, a failed DOM size
\* read (-1), be it the capture before the click or the sample of the poll,
\* does not make wait_for_transition return True.
C27_FailedSampleNeverFires ==
    (pc = "waited" /\ UrlQuiet /\ HandleQuiet /\ (wt.prev_sig = -1 \/ wt.sig = -1))
        => wt.result # "true"

\* C28: when the process has ended after an attempt handed a session to
\* main, that session is not open, wherever an interrupt arrived.
C28_RetainedSessionReleasedAtExit ==
    (pc \in Terminal /\ outcome = "success" /\ retained) => driver # "open"

====
